---- MODULE Spec2Model ----
(***************************************************************************)
(* Model of blinkit.py: the orchestrator (main), the pagination walker     *)
(* (scrape_category_for_location), the record normalizer                   *)
(* (parse_product_snippet) and the schema reader (read_schema_columns).    *)
(*                                                                         *)
(* JSON values are tagged records: [t |-> "null"], [t |-> "str", v |-> s], *)
(* [t |-> "bool", v |-> b], [t |-> "num", v |-> n], [t |-> "arr", v |-> q] *)
(* and [t |-> "obj", v |-> f] where DOMAIN f is the set of keys present.   *)
(* A Python exception raised while evaluating an expression is the value   *)
(* Raise.  Python's None is Null; the URL None is the empty tuple.         *)
(***************************************************************************)
EXTENDS Integers, Sequences, FiniteSets, TLC

\* ------------------------------------------------------------------ bounds
MaxPairs == 4
MaxPages == 2
MaxSnippets == 3

\* ------------------------------------------------------- program constants
BASE_URL == "https://blinkit.com/"
API_ENDPOINT == "v1/layout/listing_widgets"
PAGE_LIMIT == 24
PRODUCT_CARD == "product_card_snippet_type_2"
HEADERS == [app_client |-> "consumer_web", platform |-> "desktop_web"]

\* --------------------------------------------------------------- JSON values
Null == [t |-> "null"]
Raise == [t |-> "raise"]
Str(s) == [t |-> "str", v |-> s]
Bool(b) == [t |-> "bool", v |-> b]
Num(n) == [t |-> "num", v |-> n]
Arr(q) == [t |-> "arr", v |-> q]
Obj(f) == [t |-> "obj", v |-> f]
EmptyObj == Obj(<<>>)
EmptyArr == Arr(<<>>)

\* Python truthiness (the `not x` / `if x` tests of the source).
Truthy(x) ==
    CASE x.t = "null" -> FALSE
      [] x.t = "str"  -> x.v # ""
      [] x.t = "bool" -> x.v
      [] x.t = "num"  -> x.v # 0
      [] x.t = "arr"  -> Len(x.v) > 0
      [] x.t = "obj"  -> DOMAIN x.v # {}
      [] OTHER        -> FALSE

\* o.get(k, d): the value under k, d when the key is absent, and an
\* AttributeError when o is not a dict (None, a string, a list, a number).
GetD(o, k, d) ==
    IF o.t # "obj" THEN Raise
    ELSE IF k \in DOMAIN o.v THEN o.v[k] ELSE d

\* o.get(k): as above with the default None.
Get(o, k) == GetD(o, k, Null)

\* ------------------------------------------------------ record normalizer
ProductFields ==
    << "date", "l1_category", "l1_category_id", "l2_category",
       "l2_category_id", "store_id", "variant_id", "variant_name",
       "group_id", "selling_price", "mrp", "in_stock", "inventory",
       "is_sponsored", "image_url", "brand_id", "brand" >>

\* data.get('atc_action', {}).get('add_to_cart', {}).get('cart_item', {})
CartItem(data) ==
    GetD(GetD(GetD(data, "atc_action", EmptyObj),
              "add_to_cart", EmptyObj), "cart_item", EmptyObj)

\* not data.get('is_sold_out', True)
InStockMissingAsAvailable(data) ==
    LET flag == GetD(data, "is_sold_out", Bool(FALSE))
    IN  IF flag.t = "raise" THEN Raise ELSE Bool(~Truthy(flag))

InStock(data) ==
    LET flag == GetD(data, "is_sold_out", Bool(TRUE))
    IN  IF flag.t = "raise" THEN Raise ELSE Bool(~Truthy(flag))

\* The dict literal of lines 67-85, category and date fields included.
ProductData(data, category_info, scrape_date) ==
    [ date           |-> Str(scrape_date),
      l1_category    |-> Str(category_info.l1_category),
      l1_category_id |-> Num(category_info.l1_category_id),
      l2_category    |-> Str(category_info.l2_category),
      l2_category_id |-> Num(category_info.l2_category_id),
      store_id       |-> Get(GetD(data, "meta", EmptyObj), "merchant_id"),
      variant_id     |-> Get(data, "product_id"),
      variant_name   |-> Get(GetD(data, "name", EmptyObj), "text"),
      group_id       |-> Get(data, "group_id"),
      selling_price  |-> Get(CartItem(data), "price"),
      mrp            |-> Get(CartItem(data), "mrp"),
      in_stock       |-> InStock(data),
      inventory      |-> Get(data, "inventory"),
      is_sponsored   |-> GetD(data, "is_sponsored", Bool(FALSE)),
      image_url      |-> Get(GetD(data, "image", EmptyObj), "url"),
      brand_id       |-> Null,
      brand          |-> Get(GetD(data, "brand_name", EmptyObj), "text") ]

\* The final gate of line 88.
HasEssentialIdentifiers(product_data) ==
    Truthy(product_data.variant_id) /\ Truthy(product_data.variant_name)

\* parse_product_snippet: Raise when evaluation raises, Null for "no record"
\* (return None), otherwise the product dict as Obj(...).
parse_product_snippet(snippet, category_info, scrape_date) ==
    LET data == GetD(snippet, "data", EmptyObj)
    IN  IF data.t = "raise" THEN Raise
        ELSE IF ~Truthy(data) \/ Get(snippet, "widget_type") # Str(PRODUCT_CARD)
        THEN Null
        ELSE LET pd == ProductData(data, category_info, scrape_date)
             IN  IF \E f \in DOMAIN pd : pd[f].t = "raise" THEN Raise
                 ELSE IF HasEssentialIdentifiers(pd) THEN Obj(pd)
                 ELSE Null

\* ------------------------------------------------------------ schema reader
\* A text file is [exists, lines]; a line is the csv row it parses to
\* (<<>> for a blank line).  read_schema_columns gives the field names, <<>>
\* with an error logged when the file is missing, and "StopIteration" when
\* next(f) finds no first line (that exception is not caught anywhere).
RECURSIVE FirstCells(_)
FirstCells(rows) ==
    IF rows = <<>> THEN <<>>
    ELSE IF Head(rows) = <<>> THEN FirstCells(Tail(rows))
    ELSE <<Head(rows)[1]>> \o FirstCells(Tail(rows))

ReadSchemaKeepingTitle(file) ==
    IF ~file.exists THEN [raised |-> FALSE, cols |-> <<>>]
    ELSE IF file.lines = <<>> THEN [raised |-> TRUE, cols |-> <<>>]
    ELSE [raised |-> FALSE, cols |-> FirstCells(file.lines)]

read_schema_columns(file) ==
    IF ~file.exists THEN [raised |-> FALSE, cols |-> <<>>]
    ELSE IF file.lines = <<>> THEN [raised |-> TRUE, cols |-> <<>>]
    ELSE [raised |-> FALSE, cols |-> FirstCells(Tail(file.lines))]

\* ------------------------------------------------------------------- inputs
MissingFile == [exists |-> FALSE, lines |-> <<>>]
TitleLine == <<"Scraping Task Schema">>

RECURSIVE SchemaLines(_)
SchemaLines(names) ==
    IF names = <<>> THEN <<>>
    ELSE <<<<Head(names), "description">>>> \o SchemaLines(Tail(names))

FullSchema ==
    [exists |-> TRUE, lines |-> <<TitleLine>> \o SchemaLines(ProductFields)]
UnusableSchemas ==
    { MissingFile,
      [exists |-> TRUE, lines |-> <<>>],
      [exists |-> TRUE, lines |-> <<TitleLine>>],
      [exists |-> TRUE, lines |-> <<TitleLine, <<>>, <<>>>>] }
SchemaFiles ==
    UnusableSchemas \cup
    { FullSchema,
      [exists |-> TRUE,
       lines |-> <<TitleLine, <<>>>> \o SchemaLines(ProductFields)] }

\* Rows of the location and category tables (pd.read_csv(...).to_dict).
Loc(n) == [latitude |-> 10 + n, longitude |-> 20 - (n % 2)]
Cat(n) == [l1_category |-> "Grocery", l1_category_id |-> 1,
           l2_category |-> IF n % 2 = 1 THEN "Milk" ELSE "Bread",
           l2_category_id |-> 100 + n]

LocTable(n) == [exists |-> TRUE, rows |-> [k \in 1..n |-> Loc(k)]]
CatTable(n) == [exists |-> TRUE, rows |-> [k \in 1..n |-> Cat(k)]]
MissingTable == [exists |-> FALSE, rows |-> <<>>]

\* str(x) of a coordinate, digit by digit.
Digit(d) == <<"0", "1", "2", "3", "4", "5", "6", "7", "8", "9">>[d + 1]
PyStr(n) == <<Digit(n \div 10), Digit(n % 10)>>

\* --------------------------------------------------------- upstream API
Snippet(w, d) == Obj([widget_type |-> Str(w), data |-> d])
Name(s) == Obj([text |-> Str(s)])
Cart(p, m) ==
    Obj([add_to_cart |-> Obj([cart_item |-> Obj([price |-> Num(p), mrp |-> Num(m)])])])

ValidInStock ==
    Snippet(PRODUCT_CARD,
            Obj([product_id |-> Str("p1"), name |-> Name("n1"),
                 meta |-> Obj([merchant_id |-> Str("m1")]),
                 group_id |-> Str("g1"), atc_action |-> Cart(10, 12),
                 is_sold_out |-> Bool(FALSE), inventory |-> Num(5),
                 image |-> Obj([url |-> Str("u1")]),
                 brand_name |-> Name("b1")]))
ValidSoldOut ==
    Snippet(PRODUCT_CARD,
            Obj([product_id |-> Str("p2"), name |-> Name("n2"),
                 is_sold_out |-> Bool(TRUE), is_sponsored |-> Bool(TRUE)]))
ValidNoFlag ==
    Snippet(PRODUCT_CARD, Obj([product_id |-> Str("p3"), name |-> Name("n3")]))
ValidNullFlag ==
    Snippet(PRODUCT_CARD,
            Obj([product_id |-> Str("p4"), name |-> Name("n4"),
                 is_sold_out |-> Null]))
MissingId ==
    Snippet(PRODUCT_CARD,
            Obj([name |-> Name("n5"), meta |-> Obj([merchant_id |-> Str("m1")]),
                 atc_action |-> Cart(10, 12), is_sold_out |-> Bool(FALSE)]))
MissingName ==
    Snippet(PRODUCT_CARD,
            Obj([product_id |-> Str("p6"), is_sold_out |-> Bool(FALSE)]))
EmptyId ==
    Snippet(PRODUCT_CARD, Obj([product_id |-> Str(""), name |-> Name("n7")]))
EmptyNameText ==
    Snippet(PRODUCT_CARD, Obj([product_id |-> Str("p8"), name |-> Name("")]))
WrongWidget ==
    Snippet("banner_type_1",
            Obj([product_id |-> Str("p9"), name |-> Name("n9"), meta |-> Null]))
NoWidgetType ==
    Obj([data |-> Obj([product_id |-> Str("p10"), name |-> Name("n10")])])
NoData == Obj([widget_type |-> Str(PRODUCT_CARD)])
NullData == Snippet(PRODUCT_CARD, Null)
EmptyData == Snippet(PRODUCT_CARD, EmptyObj)
NullMeta ==
    Snippet(PRODUCT_CARD,
            Obj([product_id |-> Str("p11"), name |-> Name("n11"),
                 meta |-> Null, is_sold_out |-> Bool(FALSE)]))
NullName ==
    Snippet(PRODUCT_CARD, Obj([product_id |-> Str("p12"), name |-> Null]))
StrAtcAction ==
    Snippet(PRODUCT_CARD,
            Obj([product_id |-> Str("p13"), name |-> Name("n13"),
                 atc_action |-> Str("x")]))
NullImage ==
    Snippet(PRODUCT_CARD,
            Obj([product_id |-> Str("p14"), name |-> Name("n14"),
                 image |-> Null]))
NullBrandName ==
    Snippet(PRODUCT_CARD,
            Obj([product_id |-> Str("p15"), name |-> Name("n15"),
                 brand_name |-> Null]))

WalkerSnippets == {ValidInStock, ValidSoldOut, MissingId, NullMeta}
AllSnippets ==
    { ValidInStock, ValidSoldOut, ValidNoFlag, ValidNullFlag, MissingId,
      MissingName, EmptyId, EmptyNameText, WrongWidget, NoWidgetType, NoData,
      NullData, EmptyData, NullMeta, NullName, StrAtcAction, NullImage,
      NullBrandName }

\* Next-page pointers as the server sends them.
RelNext == "v1/layout/listing_widgets?offset=24"
AbsNext == "https://cdn.example/next"
AbsoluteUrls == {AbsNext}

NoPagination == "no pagination"
PageOf(snips, pagination) ==
    [status |-> "ok",
     body |-> Obj([response |->
                     IF pagination = Str(NoPagination)
                     THEN Obj([snippets |-> Arr(snips)])
                     ELSE Obj([snippets |-> Arr(snips),
                               pagination |-> pagination])])]

HasNext == Obj([next_url |-> Str(RelNext)])
NoNext == EmptyObj
Paginations ==
    { HasNext, NoNext, Str(NoPagination), Null,
      Obj([next_url |-> Null]), Obj([next_url |-> Str("")]),
      Obj([next_url |-> Str(AbsNext)]), Obj([next_url |-> Num(7)]) }

HttpError == [status |-> "http_error", body |-> Null]
NetworkError == [status |-> "network_error", body |-> Null]
NotJson == [status |-> "ok", body |-> Raise]
OddBodies ==
    { [status |-> "ok", body |-> EmptyObj],
      [status |-> "ok", body |-> Arr(<<>>)],
      [status |-> "ok", body |-> Obj([response |-> Null])],
      [status |-> "ok", body |-> Obj([response |-> Obj([snippets |-> Null])])],
      [status |-> "ok",
       body |-> Obj([response |-> Obj([snippets |-> Str("x")])])] }

\* The server is one of three catalogues of responses.
SeqsUpTo(S, n) == UNION {[1..k -> S] : k \in 0..n}

\* "tiny": two pages a pair at most, one snippet a page.
TinyLastPages ==
    { HttpError, PageOf(<<>>, NoNext), PageOf(<<ValidInStock>>, NoNext) }
TinyApi ==
    TinyLastPages \cup
    { PageOf(<<ValidInStock>>, HasNext), PageOf(<<NullMeta>>, HasNext) }
\* "walker": a first page of up to MaxSnippets snippets, then pages of one.
WalkerLaterPages ==
    {HttpError} \cup
    {PageOf(q, p) : q \in SeqsUpTo(WalkerSnippets, 1), p \in {HasNext, NoNext}}
WalkerApi ==
    {HttpError} \cup
    {PageOf(q, p) : q \in SeqsUpTo(WalkerSnippets, MaxSnippets),
                    p \in {HasNext, NoNext}}
\* "snippet": one snippet a page, every shape of snippet and of page.
SnippetApi ==
    {HttpError, NetworkError, NotJson} \cup OddBodies \cup
    {PageOf(q, p) : q \in SeqsUpTo(AllSnippets, 1), p \in Paginations}

\* What the server may answer to the request for a given page of a pair.
Responses(catalogue, page) ==
    CASE catalogue = "tiny"    -> IF page = 1 THEN TinyApi ELSE TinyLastPages
      [] catalogue = "walker"  -> IF page = 1 THEN WalkerApi ELSE WalkerLaterPages
      [] catalogue = "snippet" -> SnippetApi

\* ----------------------------------------------------------------- state
VARIABLES
    locFile, catFile, schemaFile,   \* the three input files on disk
    api,                            \* which catalogue the server answers from
    pc,                             \* position of main
    locations, categories, schema_columns,
    outputOpen, header, sink,       \* OUTPUT_FILE: opened, header row, rows
    session_headers,                \* session.headers
    i, j,                           \* indexes of the two for loops of main
    next_url, page_count, products_scraped_count,
    calls,                          \* history: pairs the walker was called on
    requests,                       \* history: every session.post issued
    rets,                           \* history: every return of the walker
    log                             \* the operational log

vars == << locFile, catFile, schemaFile, api, pc, locations, categories,
           schema_columns, outputOpen, header, sink, session_headers, i, j,
           next_url, page_count, products_scraped_count, calls, requests,
           rets, log >>

env == << locFile, catFile, schemaFile, api >>
loaded == << locations, categories, schema_columns >>
output == << outputOpen, header, sink >>
walker == << next_url, page_count, products_scraped_count >>

Today == "2024-01-01"
NoUrl == <<>>
NoPair == <<0, 0>>
Entry(level, msg, pair, n) == [level |-> level, msg |-> msg, pair |-> pair, n |-> n]

\* ------------------------------------------------------------ walker helpers
\* urljoin(BASE_URL, path): an absolute path replaces the base.
urljoin(base, path) == IF path \in AbsoluteUrls THEN <<path>> ELSE <<base, path>>

\* Lines 103-110: the URL of the first page.
FirstUrl(category) ==
    << BASE_URL, API_ENDPOINT,
       [offset |-> 0, limit |-> PAGE_LIMIT, l0_cat |-> category.l1_category_id,
        l1_cat |-> category.l2_category_id, page_index |-> 1] >>

\* session.headers.update({'lat': str(lat), 'lon': str(lon)})
KeepFirstCoordinates(headers, location) ==
    headers @@ [lat |-> PyStr(location.latitude),
                lon |-> PyStr(location.longitude)]

UpdateHeaders(headers, location) ==
    [lat |-> PyStr(location.latitude), lon |-> PyStr(location.longitude)]
        @@ headers

\* Lines 130-134: normalize the snippets in order, collecting the rows handed
\* to csv_writer.writerow, until one normalization raises.
RECURSIVE WriteRows(_, _, _, _)
WriteRows(snippets, category, scrape_date, acc) ==
    IF snippets = <<>> THEN acc
    ELSE LET product == parse_product_snippet(Head(snippets), category, scrape_date)
         IN  IF product.t = "raise"
             THEN [rows |-> acc.rows, raised |-> TRUE]
             ELSE IF Truthy(product)
             THEN WriteRows(Tail(snippets), category, scrape_date,
                            [rows |-> Append(acc.rows,
                                             [rec |-> product.v,
                                              from |-> Head(snippets)]),
                             raised |-> FALSE])
             ELSE WriteRows(Tail(snippets), category, scrape_date, acc)

\* products_scraped_count after the rows of one page were written.
CountedOncePerPage(count, written) ==
    count + (IF written = <<>> THEN 0 ELSE 1)

Counted(count, written) == count + Len(written)

\* page_count += 1
SamePageCount(n) == n

NextPageCount(n) == n + 1

Result(outcome, rows, next) == [outcome |-> outcome, rows |-> rows, next |-> next]

\* One pass through the body of `while next_url` (lines 116-152) for the
\* response the server gave: how the pass ends, the rows written, and the
\* next URL.
Iteration(resp, category, scrape_date) ==
    IF resp.status # "ok" THEN Result("request_error", <<>>, NoUrl)
    ELSE IF resp.body.t = "raise" THEN Result("unexpected_error", <<>>, NoUrl)
    ELSE
    LET response == GetD(resp.body, "response", EmptyObj)
        snippets == GetD(response, "snippets", EmptyArr)
    IN  IF snippets.t = "raise" THEN Result("unexpected_error", <<>>, NoUrl)
        ELSE IF ~Truthy(snippets) THEN Result("empty", <<>>, NoUrl)
        ELSE IF snippets.t # "arr" THEN Result("unexpected_error", <<>>, NoUrl)
        ELSE
        LET w == WriteRows(snippets.v, category, scrape_date,
                           [rows |-> <<>>, raised |-> FALSE])
            pagination == GetD(response, "pagination", EmptyObj)
            next_page_path == Get(pagination, "next_url")
        IN  IF w.raised THEN Result("unexpected_error", w.rows, NoUrl)
            ELSE IF next_page_path.t = "raise"
            THEN Result("unexpected_error", w.rows, NoUrl)
            ELSE IF ~Truthy(next_page_path)
            THEN Result("exhausted", w.rows, NoUrl)
            ELSE IF next_page_path.t # "str"
            THEN Result("unexpected_error", w.rows, NoUrl)
            ELSE Result("next", w.rows, urljoin(BASE_URL, next_page_path.v))

\* The record of one session.post (line 119) and of what followed it.
Request(resp, r) ==
    [ pair |-> <<i, j>>, page |-> page_count, url |-> next_url,
      headers |-> session_headers, is_subsequent_page |-> page_count > 1,
      resp |-> resp, outcome |-> r.outcome, wrote |-> Len(r.rows) ]

Tagged(rows) ==
    [k \in 1..Len(rows) |->
        [rec |-> rows[k].rec, from |-> rows[k].from,
         pair |-> <<i, j>>, page |-> page_count]]

PageLog == Entry("info", "page", <<i, j>>, page_count)

\* --------------------------------------------------------------- main
\* The for loops of lines 184-185: the pair after (a, b) with m categories.
NextPairSkippingCategories(a, b, m) == <<a + 1, 1>>

NextPair(a, b, m) == IF b < m THEN <<a, b + 1>> ELSE <<a + 1, 1>>

HasPair == i <= Len(locations) /\ Len(categories) >= 1

\* Lines 163-164 raise FileNotFoundError: logged at 174, main returns.
LoadFailsNotFound ==
    /\ pc = "start"
    /\ ~locFile.exists \/ ~catFile.exists
    /\ pc' = "aborted"
    /\ locations' = IF locFile.exists THEN locFile.rows ELSE locations
    /\ log' = log \o << Entry("info", "start", NoPair, 0),
                        Entry("error", "input_not_found", NoPair, 0) >>
    /\ UNCHANGED << env, categories, schema_columns, output, session_headers,
                    i, j, walker, calls, requests, rets >>

\* Line 165 raises StopIteration out of next(f): no handler, main dies.
LoadSchemaCrashes ==
    /\ pc = "start"
    /\ locFile.exists /\ catFile.exists
    /\ read_schema_columns(schemaFile).raised
    /\ pc' = "crashed"
    /\ locations' = locFile.rows
    /\ categories' = catFile.rows
    /\ log' = log \o << Entry("info", "start", NoPair, 0) >>
    /\ UNCHANGED << env, schema_columns, output, session_headers, i, j,
                    walker, calls, requests, rets >>

\* Lines 167-169: no schema columns, main returns.
LoadSchemaEmpty ==
    /\ pc = "start"
    /\ locFile.exists /\ catFile.exists
    /\ ~read_schema_columns(schemaFile).raised
    /\ read_schema_columns(schemaFile).cols = <<>>
    /\ pc' = "aborted"
    /\ locations' = locFile.rows
    /\ categories' = catFile.rows
    /\ schema_columns' = <<>>
    /\ log' = log \o
         << Entry("info", "start", NoPair, 0) >> \o
         (IF schemaFile.exists THEN <<>>
          ELSE << Entry("error", "schema_not_found", NoPair, 0) >>) \o
         << Entry("error", "no_schema", NoPair, 0) >>
    /\ UNCHANGED << env, output, session_headers, i, j, walker, calls,
                    requests, rets >>

\* Lines 161-171: the three inputs load.
LoadOk ==
    /\ pc = "start"
    /\ locFile.exists /\ catFile.exists
    /\ ~read_schema_columns(schemaFile).raised
    /\ read_schema_columns(schemaFile).cols # <<>>
    /\ pc' = "loaded"
    /\ locations' = locFile.rows
    /\ categories' = catFile.rows
    /\ schema_columns' = read_schema_columns(schemaFile).cols
    /\ log' = log \o << Entry("info", "start", NoPair, 0),
                        Entry("info", "loaded", NoPair, Len(locFile.rows)) >>
    /\ UNCHANGED << env, output, session_headers, i, j, walker, calls,
                    requests, rets >>

\* Lines 177-182: open the output, write the header, create the session.
OpenOutput ==
    /\ pc = "loaded"
    /\ pc' = "loop"
    /\ outputOpen' = TRUE
    /\ header' = schema_columns
    /\ session_headers' = HEADERS
    /\ i' = 1
    /\ j' = 1
    /\ UNCHANGED << env, loaded, sink, walker, calls, requests, rets, log >>

\* Line 186 and lines 94-113: the call for the pair (i, j) up to the loop.
BeginCall ==
    /\ pc = "loop"
    /\ HasPair
    /\ pc' = "walk"
    /\ calls' = Append(calls, <<i, j>>)
    /\ session_headers' = UpdateHeaders(session_headers, locations[i])
    /\ next_url' = FirstUrl(categories[j])
    /\ page_count' = 1
    /\ products_scraped_count' = 0
    /\ UNCHANGED << env, loaded, output, i, j, requests, rets, log >>

\* What every pass of the loop does whatever its outcome: the page is
\* logged, the request is issued and recorded, the rows are written.
Pass(resp, r) ==
    /\ requests' = Append(requests, Request(resp, r))
    /\ sink' = sink \o Tagged(r.rows)
    /\ products_scraped_count' = Counted(products_scraped_count, r.rows)
    /\ UNCHANGED << env, loaded, outputOpen, header, session_headers, i, j,
                    calls, rets >>

\* Lines 147-149, taken: the handler logs and breaks.
RequestFailsPropagates ==
    /\ pc = "walk" /\ next_url # NoUrl
    /\ \E resp \in Responses(api, page_count) :
         LET r == Iteration(resp, categories[j], Today)
         IN  /\ r.outcome = "request_error"
             /\ Pass(resp, r)
             /\ log' = log \o << PageLog >>
             /\ pc' = "crashed"
             /\ UNCHANGED << next_url, page_count >>

\* Lines 119-120 raise a RequestException (bad status, network error).
RequestFails ==
    /\ pc = "walk" /\ next_url # NoUrl
    /\ \E resp \in Responses(api, page_count) :
         LET r == Iteration(resp, categories[j], Today)
         IN  /\ r.outcome = "request_error"
             /\ Pass(resp, r)
             /\ log' = log \o << PageLog,
                                 Entry("error", "request_failed", <<i, j>>, page_count) >>
             /\ pc' = "finish"
             /\ UNCHANGED << next_url, page_count >>

\* Lines 121-146 raise anything else (lines 150-152): the rows written
\* before the exception stay, the handler logs and breaks.
PageRaises ==
    /\ pc = "walk" /\ next_url # NoUrl
    /\ \E resp \in Responses(api, page_count) :
         LET r == Iteration(resp, categories[j], Today)
         IN  /\ r.outcome = "unexpected_error"
             /\ Pass(resp, r)
             /\ log' = log \o << PageLog,
                                 Entry("error", "unexpected", <<i, j>>, page_count) >>
             /\ pc' = "finish"
             /\ UNCHANGED << next_url, page_count >>

\* Lines 124-126: no snippets, break.
EmptyPage ==
    /\ pc = "walk" /\ next_url # NoUrl
    /\ \E resp \in Responses(api, page_count) :
         LET r == Iteration(resp, categories[j], Today)
         IN  /\ r.outcome = "empty"
             /\ Pass(resp, r)
             /\ log' = log \o << PageLog,
                                 Entry("info", "no_more", <<i, j>>, page_count) >>
             /\ pc' = "finish"
             /\ UNCHANGED << next_url, page_count >>

\* Lines 140-143: a next pointer; the loop goes round after the delay.
\* The server has at most MaxPages pages for a pair.
PageFollowed ==
    /\ pc = "walk" /\ next_url # NoUrl
    /\ page_count < MaxPages
    /\ \E resp \in Responses(api, page_count) :
         LET r == Iteration(resp, categories[j], Today)
         IN  /\ r.outcome = "next"
             /\ Pass(resp, r)
             /\ log' = log \o << PageLog >>
             /\ next_url' = r.next
             /\ page_count' = NextPageCount(page_count)
             /\ pc' = "walk"

\* Lines 144-145: no next pointer; next_url = None ends the loop.
PageExhausted ==
    /\ pc = "walk" /\ next_url # NoUrl
    /\ \E resp \in Responses(api, page_count) :
         LET r == Iteration(resp, categories[j], Today)
         IN  /\ r.outcome = "exhausted"
             /\ Pass(resp, r)
             /\ log' = log \o << PageLog >>
             /\ next_url' = NoUrl
             /\ pc' = "finish"
             /\ UNCHANGED page_count

\* Line 154, the implicit `return None`, line 187 and the loop increment.
EndCall ==
    /\ pc = "finish"
    /\ log' = log \o << Entry("info", "finished", <<i, j>>, products_scraped_count),
                        Entry("info", "separator", <<i, j>>, 0) >>
    /\ rets' = Append(rets, [pair |-> <<i, j>>, value |-> Null,
                             pages |-> page_count])
    /\ i' = NextPair(i, j, Len(categories))[1]
    /\ j' = NextPair(i, j, Len(categories))[2]
    /\ pc' = "loop"
    /\ UNCHANGED << env, loaded, output, session_headers, walker, calls,
                    requests >>

\* Line 189: both loops are over, the output file is closed.
Complete ==
    /\ pc = "loop"
    /\ ~HasPair
    /\ pc' = "done"
    /\ log' = Append(log, Entry("info", "complete", NoPair, 0))
    /\ UNCHANGED << env, loaded, output, session_headers, i, j, walker,
                    calls, requests, rets >>

\* ----------------------------------------------------------- specifications
InitWith(responses, schemas, locCounts, catCounts) ==
    /\ locFile \in {MissingTable} \cup {LocTable(n) : n \in locCounts}
    /\ catFile \in {MissingTable} \cup {CatTable(n) : n \in catCounts}
    /\ Len(locFile.rows) * Len(catFile.rows) <= MaxPairs
    /\ schemaFile \in schemas
    /\ api = responses
    /\ pc = "start"
    /\ locations = <<>>
    /\ categories = <<>>
    /\ schema_columns = <<>>
    /\ outputOpen = FALSE
    /\ header = <<>>
    /\ sink = <<>>
    /\ session_headers = <<>>
    /\ i = 0
    /\ j = 0
    /\ next_url = NoUrl
    /\ page_count = 0
    /\ products_scraped_count = 0
    /\ calls = <<>>
    /\ requests = <<>>
    /\ rets = <<>>
    /\ log = <<>>

\* The orchestrator over tables of up to MaxPairs pairs.
Init == InitWith("tiny", SchemaFiles, 0..MaxPairs, 0..MaxPairs)

\* One pair, pages of up to MaxSnippets snippets.
InitWalker ==
    InitWith("walker", UnusableSchemas \cup {FullSchema}, {1}, {1})

\* One pair, one snippet a page, every shape of snippet and of page.
InitSnippet ==
    InitWith("snippet", UnusableSchemas \cup {FullSchema}, {1}, {1})

Next ==
    \/ LoadFailsNotFound
    \/ LoadSchemaCrashes
    \/ LoadSchemaEmpty
    \/ LoadOk
    \/ OpenOutput
    \/ BeginCall
    \/ RequestFails
    \/ PageRaises
    \/ EmptyPage
    \/ PageFollowed
    \/ PageExhausted
    \/ EndCall
    \/ Complete

Spec == Init /\ [][Next]_vars
SpecWalker == InitWalker /\ [][Next]_vars
SpecSnippet == InitSnippet /\ [][Next]_vars

TypeOK ==
    /\ pc \in {"start", "aborted", "crashed", "loaded", "loop", "walk",
               "finish", "done"}
    /\ page_count \in 0..MaxPages
    /\ Len(sink) >= products_scraped_count

\* ------------------------------------------------------- shared vocabulary
N == Len(locations)
M == Len(categories)

\* The pairs in location-major, category-minor order.
CrossProduct ==
    [k \in 1..(N * M) |-> <<((k - 1) \div M) + 1, ((k - 1) % M) + 1>>]

PairIndex(p) == (p[1] - 1) * M + p[2]

RowsOf(p) == SelectSeq(sink, LAMBDA row : row.pair = p)
RequestsOf(p) == SelectSeq(requests, LAMBDA r : r.pair = p)
Recs(rows) == [k \in 1..Len(rows) |-> rows[k].rec]
Returned(p) == \E k \in DOMAIN rets : rets[k].pair = p
Outcomes == {requests[k].outcome : k \in DOMAIN requests}

\* The snippet list and the next pointer of a response, read off the JSON.
SnippetList(resp) ==
    GetD(GetD(resp.body, "response", EmptyObj), "snippets", EmptyArr)
PageSnippets(resp) ==
    IF resp.status = "ok" /\ SnippetList(resp).t = "arr"
    THEN SnippetList(resp).v ELSE <<>>
PointerOf(resp) ==
    Get(GetD(GetD(resp.body, "response", EmptyObj), "pagination", EmptyObj),
        "next_url")
CarriesNext(resp) == resp.status = "ok" /\ Truthy(PointerOf(resp))
IsEmptyPage(resp) ==
    resp.status = "ok" /\ SnippetList(resp).t # "raise"
                       /\ ~Truthy(SnippetList(resp))
RequestFailed(resp) == resp.status # "ok"
Failed(r) == r.outcome \in {"request_error", "unexpected_error"}

\* The records of the snippets of a page that normalize to a record.
RECURSIVE AcceptedOfPage(_, _)
AcceptedOfPage(snips, category) ==
    IF snips = <<>> THEN <<>>
    ELSE LET product == parse_product_snippet(Head(snips), category, Today)
         IN  (IF product.t = "obj" THEN <<product.v>> ELSE <<>>)
                 \o AcceptedOfPage(Tail(snips), category)

RECURSIVE AcceptedOfPages(_, _)
AcceptedOfPages(reqs, category) ==
    IF reqs = <<>> THEN <<>>
    ELSE AcceptedOfPage(PageSnippets(Head(reqs).resp), category)
             \o AcceptedOfPages(Tail(reqs), category)

\* --------------------------------------------------------------------- C1
\* C1: main calls the walker once per (location, category) pair, in
\* location-major, category-minor order: the calls made so far are always a
\* prefix of the cross product, and when main is done they are all of it,
\* N * M calls, however each pair's pagination ended.
C1_CrossProductCoverage ==
    /\ Len(calls) <= N * M
    /\ \A k \in DOMAIN calls : calls[k] = CrossProduct[k]
    /\ pc = "done" => Len(calls) = N * M

C1_Witness ==
    /\ pc = "done" /\ N = 2 /\ M = 2 /\ Len(calls) = 4
    /\ {"request_error", "unexpected_error", "empty", "exhausted"} \subseteq Outcomes

\* --------------------------------------------------------------------- C2
\* C2: when the request for page n of a pair fails (bad status or network
\* error), the sink holds for that pair exactly the rows of its pages before
\* n and nothing from page n on, one error is logged for the pair, no
\* further request is made for it, the error does not leave the walker, and
\* when main is done every later pair was walked too.
C2_FailedPageKeepsEarlierRows ==
    \A k \in DOMAIN requests :
        LET r == requests[k]
            earlier == SelectSeq(requests,
                                 LAMBDA q : q.pair = r.pair /\ q.page < r.page)
        IN  RequestFailed(r.resp) =>
              /\ Recs(RowsOf(r.pair)) = AcceptedOfPages(earlier, categories[r.pair[2]])
              /\ \A x \in DOMAIN sink :
                    sink[x].pair = r.pair => sink[x].page < r.page
              /\ Cardinality({x \in DOMAIN log : log[x].level = "error"
                                                 /\ log[x].pair = r.pair}) = 1
              /\ \A x \in DOMAIN requests : x > k => requests[x].pair # r.pair
              /\ pc # "crashed"
              /\ <<i, j>> = r.pair => pc \in {"finish", "done"}
              /\ pc = "done" => Len(calls) = N * M

C2_Witness ==
    \E k \in DOMAIN requests :
        /\ RequestFailed(requests[k].resp)
        /\ requests[k].page = 2
        /\ Len(RowsOf(requests[k].pair)) = 1
        /\ \E x \in DOMAIN requests :
              x > k /\ requests[x].pair # requests[k].pair

\* --------------------------------------------------------------------- C3
\* C3: normalizing a snippet never raises, whatever is absent or malformed
\* in it (an intermediate object that is null included), and no page of a
\* pair ends in an unexpected error because of one of its snippets.
C3_NormalizingNeverRaises ==
    \A k \in DOMAIN requests :
        /\ requests[k].outcome # "unexpected_error"
        /\ \A x \in DOMAIN PageSnippets(requests[k].resp) :
              parse_product_snippet(PageSnippets(requests[k].resp)[x],
                                    categories[requests[k].pair[2]],
                                    Today).t # "raise"

\* --------------------------------------------------------------------- C4
\* C4: the requests of a pair are for pages 1, 2, ..., k in order, each
\* once, each for the URL the page before pointed to; every page before the
\* last was fetched, non-empty and carried a next pointer; once the call has
\* returned, the last page k is one that failed, was empty or carried no
\* next pointer, and the page counter stands at k.
C4_PagesInOrderUntilFirstStop ==
    \A c \in DOMAIN calls :
        LET R == RequestsOf(calls[c])
            pages == SelectSeq(log, LAMBDA e : e.msg = "page" /\ e.pair = calls[c])
        IN  /\ \A q \in DOMAIN R :
                  /\ R[q].page = q
                  /\ R[q].is_subsequent_page = (q > 1)
                  /\ R[q].url = IF q = 1 THEN FirstUrl(categories[calls[c][2]])
                                ELSE urljoin(BASE_URL, PointerOf(R[q - 1].resp).v)
                  /\ q < Len(R) => /\ ~Failed(R[q])
                                   /\ ~IsEmptyPage(R[q].resp)
                                   /\ CarriesNext(R[q].resp)
            /\ Len(pages) = Len(R)
            /\ \A q \in DOMAIN pages : pages[q].n = q
            /\ \A x \in DOMAIN rets :
                  rets[x].pair = calls[c] =>
                    /\ Len(R) >= 1
                    /\ rets[x].pages = Len(R)
                    /\ \/ Failed(R[Len(R)])
                       \/ IsEmptyPage(R[Len(R)].resp)
                       \/ ~CarriesNext(R[Len(R)].resp)

C4_Witness ==
    \E x \in DOMAIN rets :
        LET R == RequestsOf(rets[x].pair)
        IN  /\ rets[x].pages = 2 /\ Len(R) = 2
            /\ CarriesNext(R[1].resp)
            /\ IsEmptyPage(R[2].resp)

\* --------------------------------------------------------------------- C5
\* C5: for a pair whose call has returned and whose requests all succeeded,
\* the rows of the pair in the sink are the normalized records of the
\* accepted snippets of its pages, one row each, in page order and then
\* snippet order.
C5_RowsAreTheAcceptedSnippets ==
    \A x \in DOMAIN rets :
        LET p == rets[x].pair
        IN  (\A k \in DOMAIN requests :
                requests[k].pair = p => ~RequestFailed(requests[k].resp))
            => Recs(RowsOf(p)) = AcceptedOfPages(RequestsOf(p), categories[p[2]])

\* --------------------------------------------------------------------- C6
\* C6 as written: the walker returns to its caller the number of rows it
\* wrote for the pair.
C6_ReturnsRowCount ==
    \A x \in DOMAIN rets : rets[x].value = Num(Len(RowsOf(rets[x].pair)))

\* C6 as amended: the walker returns None; the count in its closing log
\* line is the number of rows it wrote to the sink for the pair, however
\* the pair ended.
C6_LogsRowCountReturnsNone ==
    \A x \in DOMAIN rets :
        /\ rets[x].value = Null
        /\ \E e \in DOMAIN log :
              /\ log[e].msg = "finished" /\ log[e].pair = rets[x].pair
              /\ log[e].n = Len(RowsOf(rets[x].pair))
        /\ \A e \in DOMAIN log :
              log[e].msg = "finished" /\ log[e].pair = rets[x].pair
                  => log[e].n = Len(RowsOf(rets[x].pair))

C6_Witness ==
    \E x \in DOMAIN rets :
        LET R == RequestsOf(rets[x].pair)
        IN  /\ Len(RowsOf(rets[x].pair)) = 2
            /\ Len(R) = 2
            /\ R[1].wrote = 2
            /\ R[2].outcome = "unexpected_error"

\* --------------------------------------------------------------------- C7
\* The conditions of the claim, read off the snippet itself.
IsProductCard(s) ==
    s.t = "obj" /\ "widget_type" \in DOMAIN s.v
                /\ s.v.widget_type = Str(PRODUCT_CARD)
PayloadOf(s) == IF s.t = "obj" /\ "data" \in DOMAIN s.v THEN s.v.data ELSE Null
HasPayload(s) == Truthy(PayloadOf(s))
HasVariantId(s) ==
    LET d == PayloadOf(s)
    IN  d.t = "obj" /\ "product_id" \in DOMAIN d.v /\ Truthy(d.v.product_id)
HasVariantName(s) ==
    LET d == PayloadOf(s)
    IN  /\ d.t = "obj" /\ "name" \in DOMAIN d.v
        /\ d.v.name.t = "obj" /\ "text" \in DOMAIN d.v.name.v
        /\ Truthy(d.v.name.v.text)
Acceptable(s) ==
    IsProductCard(s) /\ HasPayload(s) /\ HasVariantId(s) /\ HasVariantName(s)

\* C7: every row of the sink comes from a snippet that is a product card
\* with a non-empty payload, a variant_id and a variant_name; and for every
\* snippet the walker normalized that fails one of these, the normalizer
\* returned "no record".
C7_OnlyAcceptableSnippetsEmitted ==
    /\ \A x \in DOMAIN sink : Acceptable(sink[x].from)
    /\ \A k \in DOMAIN requests :
          \A x \in DOMAIN PageSnippets(requests[k].resp) :
              LET s == PageSnippets(requests[k].resp)[x]
              IN  ~Acceptable(s) =>
                    parse_product_snippet(s, categories[requests[k].pair[2]],
                                          Today) = Null

\* --------------------------------------------------------------------- C8
\* The three inputs are present and the schema file has a field line after
\* its title line.
InputsUsable ==
    /\ locFile.exists /\ catFile.exists /\ schemaFile.exists
    /\ \E k \in 2..Len(schemaFile.lines) : schemaFile.lines[k] # <<>>

\* C8: when a table or the schema file is missing, or the schema file is
\* empty or yields no field name, main stops before the output file is
\* opened, before a header or a row is written and before any request; the
\* output is opened only after the three inputs loaded with a non-empty
\* schema, and requests are issued only after the output was opened.
C8_LoadFailureAbortsBeforeOutput ==
    /\ ~InputsUsable =>
          /\ ~outputOpen /\ header = <<>> /\ sink = <<>>
          /\ requests = <<>> /\ calls = <<>>
          /\ pc \in {"start", "aborted", "crashed"}
    /\ outputOpen => /\ InputsUsable /\ schema_columns # <<>>
                     /\ header = schema_columns
                     /\ locations = locFile.rows /\ categories = catFile.rows
    /\ (requests # <<>> \/ sink # <<>> \/ calls # <<>>) => outputOpen

C8_Witness ==
    /\ pc = "aborted"
    /\ locFile.exists /\ catFile.exists /\ schemaFile.exists
    /\ Len(schemaFile.lines) >= 1
    /\ ~outputOpen /\ requests = <<>>

\* --------------------------------------------------------------------- C9
\* C9: every request carries in the session headers the latitude and the
\* longitude of the location of the pair it was issued for, the headers
\* hold them from the start of the pair's walk, and the requests of one
\* pair all come before those of the next pair.
C9_RequestsCarryOwnCoordinates ==
    /\ \A k \in DOMAIN requests :
          LET r == requests[k]
          IN  /\ {"lat", "lon"} \subseteq DOMAIN r.headers
              /\ r.headers.lat = PyStr(locations[r.pair[1]].latitude)
              /\ r.headers.lon = PyStr(locations[r.pair[1]].longitude)
    /\ \A a, b \in DOMAIN requests :
          a < b => PairIndex(requests[a].pair) <= PairIndex(requests[b].pair)
    /\ pc = "walk" =>
          /\ {"lat", "lon"} \subseteq DOMAIN session_headers
          /\ session_headers.lat = PyStr(locations[i].latitude)
          /\ session_headers.lon = PyStr(locations[i].longitude)

C9_Witness ==
    \E a, b \in DOMAIN requests :
        /\ a < b
        /\ requests[a].pair[1] = 1 /\ requests[a].page = 2
        /\ requests[b].pair[1] = 2 /\ requests[b].page = 2
        /\ requests[a].headers.lat # requests[b].headers.lat
        /\ requests[a].headers.lon # requests[b].headers.lon

\* -------------------------------------------------------------------- C10
SoldOutFlag(row) == GetD(row.from.v.data, "is_sold_out", Str("absent"))

\* C10: for every row written, in_stock is false when the snippet has no
\* is_sold_out flag, true when the flag is false, and false when the flag
\* is true.
C10_InStockNegatesSoldOut ==
    \A x \in DOMAIN sink :
        /\ SoldOutFlag(sink[x]) = Str("absent") => sink[x].rec.in_stock = Bool(FALSE)
        /\ SoldOutFlag(sink[x]) = Bool(FALSE) => sink[x].rec.in_stock = Bool(TRUE)
        /\ SoldOutFlag(sink[x]) = Bool(TRUE) => sink[x].rec.in_stock = Bool(FALSE)

C10_Witness ==
    \E x, y \in DOMAIN sink :
        /\ SoldOutFlag(sink[x]) = Str("absent")
        /\ sink[x].rec.in_stock = Bool(FALSE)
        /\ SoldOutFlag(sink[y]) = Bool(FALSE)
        /\ sink[y].rec.in_stock = Bool(TRUE)

====
